---- MODULE Spec2Model ----
(***************************************************************************)
(* Plex -> Last.fm webhook relay.                                          *)
(*                                                                         *)
(* Two deployments of the same receiver are in the repository:             *)
(*   "pages" : src/pages/api/webhook.js      (default export handler)      *)
(*   "app"   : src/app/api/webhook/route.js  (exports POST and GET)        *)
(* Both share the dispatcher lastFmHook and generateSecurePayload.         *)
(* A request is followed through the await points of its handler.          *)
(***************************************************************************)
EXTENDS Integers, Sequences, FiniteSets, TLC

VARIABLES
    variant,   \* which route file is deployed: "pages" or "app"
    env,       \* process.env.API_KEY: [set |-> BOOLEAN, value |-> STRING]
    now,       \* wall clock, Math.floor(Date.now() / 1000)
    reqs,      \* request id -> state of that request's handler invocation
    sigrun     \* two evaluations of generateSecurePayload, side by side

vars == <<variant, env, now, reqs, sigrun>>

(***************************************************************************)
(* Bounds and program constants                                            *)
(***************************************************************************)
MaxClock == 1        \* seconds that may pass outside the retry delays

MaxRetries == 5      \* `tries <= 5`
SleepSeconds == 2    \* sleep(2000)
FirstTry == 1        \* `tries = 1` default parameter

Variants == {"pages", "app"}
Envs == { [set |-> TRUE, value |-> "s3cret"],
          [set |-> TRUE, value |-> ""],
          [set |-> FALSE, value |-> ""] }

LAST_FM_API == "KEY"
LAST_FM_SK == "SESS"
LAST_FM_SECRET == "SHH"
\* process.env as generateSecurePayload reads it
LastFmEnv == [api_key |-> LAST_FM_API, sk |-> LAST_FM_SK, secret |-> LAST_FM_SECRET]

(***************************************************************************)
(* Inbound request                                                         *)
(***************************************************************************)
\* The app route exports POST and GET only; other methods never reach its code.
Methods == {"POST", "GET"}

\* The query string: at most one parameter, under the name the caller used.
NoQuery == [name |-> "", value |-> ""]
Queries == {NoQuery} \cup
           [name : {"apikey", "apiKey"}, value : {"s3cret", "wrong", ""}]

\* A JSON value as the receiver looks at it.
NoEvent == [isNull |-> TRUE, hasMetadata |-> FALSE, event |-> "", type |-> "",
            title |-> "", grandparentTitle |-> "", parentTitle |-> ""]
TrackEvents ==
    [isNull : {FALSE}, hasMetadata : {TRUE},
     event : {"media.play", "media.resume", "media.scrobble",
              "media.pause", "media.stop", "media.rate"},
     type : {"track"},
     title : {"A"}, grandparentTitle : {"B"}, parentTitle : {"C"}]
    \cup
    [isNull : {FALSE}, hasMetadata : {TRUE},
     event : {"media.play", "media.resume", "media.scrobble"},
     type : {"track"},
     title : {"C"}, grandparentTitle : {"A"}, parentTitle : {"B"}]
OtherEvents ==
    [isNull : {FALSE}, hasMetadata : {TRUE},
     event : {"media.play", "media.scrobble", "media.stop"},
     type : {"movie", ""},            \* "": Metadata has no `type` key
     title : {"A"}, grandparentTitle : {"B"}, parentTitle : {"C"}]
NoMetadataEvent == [NoEvent EXCEPT !.isNull = FALSE, !.event = "media.play"]
JsonValues == TrackEvents \cup OtherEvents \cup {NoMetadataEvent, NoEvent}

\* A payload text: absent, the empty string, or a text that is or is not JSON.
AbsentPayload == [kind |-> "absent", valid |-> FALSE, json |-> NoEvent]
EmptyPayload == [kind |-> "empty", valid |-> FALSE, json |-> NoEvent]
GarbagePayload == [kind |-> "text", valid |-> FALSE, json |-> NoEvent]
Payloads == {AbsentPayload, EmptyPayload, GarbagePayload} \cup
            [kind : {"text"}, valid : {TRUE}, json : JsonValues]

\* The body: a form with an optional `payload` field; a JSON body that is a
\* string (the payload text), or the JSON value itself; or something else.
Bodies == [enc : {"form"}, payload : Payloads]
          \cup [enc : {"jsonString"},
                payload : {p \in Payloads : p.kind # "absent"}]
          \cup [enc : {"jsonValue"},
                payload : {p \in Payloads : p.kind = "absent" \/ p.valid}]
          \cup [enc : {"other"}, payload : {AbsentPayload}]

Inputs == [method : Methods, query : Queries, body : Bodies]
NoInput == [method |-> "", query |-> NoQuery,
            body |-> [enc |-> "other", payload |-> AbsentPayload]]

(***************************************************************************)
(* Responses                                                               *)
(***************************************************************************)
\* A response body as JSON: null, a string, or an object with some of the
\* keys body, status, received, event (bodyStatus 0: no `status` key).
NullBody == [shape |-> "null", text |-> "", bodyStatus |-> 0,
             received |-> FALSE, event |-> ""]
StringBody(s) == [NullBody EXCEPT !.shape = "string", !.text = s]
ObjectBody(s, st) == [NullBody EXCEPT !.shape = "object", !.text = s,
                                      !.bodyStatus = st]
AckBody(e) == [NullBody EXCEPT !.shape = "object", !.received = TRUE,
                               !.event = e]

\* kind: "none" (not answered yet), "response", "undefined" (the handler
\* returned without a value), "threw" (the handler's promise rejected).
NoResponse == [kind |-> "none", status |-> 0, body |-> NullBody]
\* NextResponse.json(body, init): the HTTP status is init.status
NextResponseJson(b, st) == [kind |-> "response", status |-> st, body |-> b]
\* NextResponse.json(body): no init, so the HTTP status is 200
NextResponseJsonNoInit(b) == NextResponseJson(b, 200)
\* new NextResponse(null, {status})
NextResponseNew(st) == [kind |-> "response", status |-> st, body |-> NullBody]
ReturnedUndefined == [kind |-> "undefined", status |-> 0, body |-> NullBody]
Threw == [kind |-> "threw", status |-> 0, body |-> NullBody]

(***************************************************************************)
(* Upstream dispatcher: generateSecurePayload and lastFmHook               *)
(***************************************************************************)
\* The arguments of one lastFmHook call made by the receiver.
CallArgs(t, a, al, m) == [track |-> t, artist |-> a, album |-> al, method |-> m]

\* crypto-js md5(...).toString(): a digest determined by the hashed string
\* (distinct strings get distinct digests here: collisions are not modelled).
md5(str) == "md5<" \o str \o ">"

\* const params = {method, artist, track, album, timestamp, api_key, sk},
\* under a given environment
ParamsEnv(track, artist, album, method, timestamp, lfm) ==
    [method |-> method, artist |-> artist, track |-> track, album |-> album,
     timestamp |-> ToString(timestamp),
     api_key |-> lfm.api_key, sk |-> lfm.sk]

Params(track, artist, album, method, timestamp) ==
    ParamsEnv(track, artist, album, method, timestamp, LastFmEnv)

\* Mutant: the keys are left in insertion order (no .sort()).
SortedKeys_Unsorted ==
    <<"method", "artist", "track", "album", "timestamp", "api_key", "sk">>

\* Object.keys(params).sort()
SortedKeys == <<"album", "api_key", "artist", "method", "sk", "timestamp", "track">>

RECURSIVE JoinKeyValues(_, _)
\* .map((key) => key + params[key]).join("")
JoinKeyValues(keys, params) ==
    IF keys = <<>> THEN ""
    ELSE Head(keys) \o params[Head(keys)] \o JoinKeyValues(Tail(keys), params)

SignatureString(params) == JoinKeyValues(SortedKeys, params)

\* new URLSearchParams({...params, api_sig: signature, format: "json"}),
\* under a given environment
generateSecurePayloadEnv(track, artist, album, method, timestamp, lfm) ==
    LET params == ParamsEnv(track, artist, album, method, timestamp, lfm)
        signature == md5(SignatureString(params) \o lfm.secret)
    IN  [method |-> params.method, artist |-> params.artist,
         track |-> params.track, album |-> params.album,
         timestamp |-> params.timestamp,
         api_key |-> params.api_key, sk |-> params.sk,
         api_sig |-> signature, format |-> "json"]

generateSecurePayload(track, artist, album, method, timestamp) ==
    generateSecurePayloadEnv(track, artist, album, method, timestamp, LastFmEnv)
NoPayload == [method |-> "", artist |-> "", track |-> "", album |-> "",
              timestamp |-> "", api_key |-> "", sk |-> "",
              api_sig |-> "", format |-> ""]

\* What one `await fetch(...)` plus `await response.text()` can bring back.
\*   net   : FALSE when fetch rejects (network failure)
\*   ok    : response.ok
\*   body  : "nonjson" | "null" | "object"  (what JSON.parse makes of the text)
\*   error : jsonResponse.error when it is a number (0: no such key)
\*   errorIsNumber : FALSE when jsonResponse.error is the string "11"
NetworkFailure == [net |-> FALSE, ok |-> FALSE, body |-> "nonjson",
                   error |-> 0, errorIsNumber |-> FALSE]
Replies ==
    [net : {TRUE}, ok : BOOLEAN, body : {"nonjson", "null"},
     error : {0}, errorIsNumber : {FALSE}]
    \cup [net : {TRUE}, ok : BOOLEAN, body : {"object"},
          error : {0, 6, 11, 16}, errorIsNumber : {TRUE}]
    \cup [net : {TRUE}, ok : BOOLEAN, body : {"object"},
          error : {11}, errorIsNumber : {FALSE}]
Outcomes == {NetworkFailure} \cup Replies

\* Mutant: every error code is taken for a transient one.
IsTransientCode_Any(reply) == reply.error # 0

\* jsonResponse.error === 11 || jsonResponse.error === 16
IsTransientCode(reply) ==
    reply.errorIsNumber /\ (reply.error = 11 \/ reply.error = 16)

\* Mutants of the retry test: one retry short, one retry more.
MayRetry_Short(tries) == tries < MaxRetries
MayRetry_Long(tries) == tries <= MaxRetries + 1

\* if (tries <= 5)
MayRetry(tries) == tries <= MaxRetries

\* The body of the inner try block: "normal" (falls through to `return 1`),
\* "retry" (sleeps, then returns the recursive call) or "throw". The
\* `scrobbles["@attr"]["ignored"]` test only logs and is left out.
InnerTry(reply, tries) ==
    IF reply.body = "nonjson" THEN "throw"          \* JSON.parse: SyntaxError
    ELSE IF ~reply.ok THEN
        IF reply.body = "null" THEN "throw"         \* null.error: TypeError
        ELSE IF IsTransientCode(reply) THEN
            IF MayRetry(tries) THEN "retry" ELSE "normal"
        ELSE "throw"                                \* throw {error: jsonResponse}
    ELSE "normal"

\* } catch (parseError) { console.error(...) }
InnerCatch(result) == IF result = "throw" THEN "normal" ELSE result

\* Mutant: a rejected fetch is retried like a transient error code.
OuterTry_RetryOnFailure(outcome, tries) ==
    IF ~outcome.net THEN (IF MayRetry(tries) THEN "retry" ELSE "throw")
    ELSE InnerCatch(InnerTry(outcome, tries))

\* The body of the outer try block: the fetch, then the inner try/catch.
OuterTry(outcome, tries) ==
    IF ~outcome.net THEN "throw"                    \* fetch rejected
    ELSE InnerCatch(InnerTry(outcome, tries))

\* Mutant: the outer catch lets the failure through.
OuterCatch_Rethrow(result) == result

\* } catch (fetchError) { console.error(...) }
OuterCatch(result) == IF result = "throw" THEN "normal" ELSE result

\* One invocation of lastFmHook from its fetch on.
lastFmHookStep(outcome, tries) == OuterCatch(OuterTry(outcome, tries))

(***************************************************************************)
(* Webhook receiver: handler (pages) and POST / GET (app)                  *)
(***************************************************************************)
\* url.searchParams.get("apikey"): null unless a parameter has that name
SearchParamsGet(query, name) ==
    IF query.name = name THEN [present |-> TRUE, value |-> query.value]
    ELSE [present |-> FALSE, value |-> ""]

\* Mutant: the test is only apiKey != process.env.API_KEY.
Unauthorized_NoFalsyTest(query, e) ==
    LET apiKey == SearchParamsGet(query, "apikey")
    IN  \/ ~apiKey.present                            \* null != "..."
        \/ ~e.set
        \/ apiKey.value # e.value

\* if (!apiKey || apiKey != process.env.API_KEY)
Unauthorized(query, e) ==
    LET apiKey == SearchParamsGet(query, "apikey")
    IN  \/ ~apiKey.present \/ apiKey.value = ""       \* !apiKey
        \/ ~e.set                                     \* "x" != undefined
        \/ apiKey.value # e.value

\* The synchronous start of the handler, up to its first await: the response
\* it returns there, or NoResponse when it goes on to read the body.
EnterPages(input, e) ==
    IF input.method # "POST"
    THEN Threw   \* `new NextResponse.json(...)`: a static method is no constructor
    ELSE IF Unauthorized(input.query, e)
    THEN NextResponseJson(StringBody("Unauthorized"), 401)
    ELSE NoResponse

EnterApp(input, e) ==
    IF input.method = "GET"
    THEN NextResponseJsonNoInit(ObjectBody("Invalid Method", 405))
    ELSE IF Unauthorized(input.query, e)
    THEN NextResponseJsonNoInit(ObjectBody("Unauthorized", 401))
    ELSE NoResponse

EnterResult(v, input, e) ==
    IF v = "pages" THEN EnterPages(input, e) ELSE EnterApp(input, e)

\* catch (error) { ... return 500 }
InternalError(v) ==
    IF v = "pages"
    THEN NextResponseJson(StringBody("Internal Server Error"), 500)
    ELSE NextResponseJsonNoInit(ObjectBody("Internal Server error", 500))

\* if (!rawPayload) return ...
MissingPayload(v) ==
    IF v = "pages"
    THEN NextResponseJson(StringBody("Webhook payload is missing from form data."), 400)
    ELSE NextResponseJsonNoInit(ObjectBody("Webhook payload is missing from form data.", 400))

\* if (event.Metadata.type !== "track") return ...
NotATrack(v) ==
    IF v = "pages"
    THEN NextResponseJson(StringBody("Not a track. Skipping"), 400)
    ELSE NextResponseJsonNoInit(ObjectBody("", 204))

\* case "media.pause": case "media.stop": and default:
Ignored(v) ==
    IF v = "pages" THEN NextResponseNew(204)
    ELSE NextResponseJsonNoInit(ObjectBody("", 204))

\* What reading the body gives: it throws, or yields rawPayload, which is
\* null, a string or (app, a JSON body that is no string) an object.
\*   pages: (await request.formData()).get("payload")
\*   app:   await request.json()
ReadRaw(v, body) ==
    IF v = "pages"
    THEN IF body.enc # "form" THEN "throw"
         ELSE IF body.payload.kind = "absent" THEN "null" ELSE "string"
    ELSE IF body.enc = "jsonString" THEN "string"
         ELSE IF body.enc = "jsonValue"
              THEN IF body.payload.kind = "absent" \/ body.payload.json.isNull
                   THEN "null" ELSE "object"
              ELSE "throw"

\* !rawPayload
Falsy(raw, body) == raw = "null" \/ (raw = "string" /\ body.payload.kind = "empty")

\* JSON.parse(rawPayload) succeeds: on a string that is JSON text. An object
\* is first turned into the string "[object Object]", which is not.
JsonParseOk(raw, body) == raw = "string" /\ body.payload.valid

\* Mutant: the media type is not looked at.
IsTrack_Any(event) == TRUE

\* event.Metadata.type !== "track", negated
IsTrack(event) == event.type = "track"

\* Method name per event kind (the switch), "" when nothing is dispatched.
UpstreamMethod(kind) ==
    IF kind \in {"media.play", "media.resume"} THEN "track.updateNowPlaying"
    ELSE IF kind = "media.scrobble" THEN "track.scrobble"
    ELSE ""

\* Mutant: artist and album change places.
DispatchArgs_Swapped(event) ==
    [track |-> event.title, artist |-> event.parentTitle,
     album |-> event.grandparentTitle, method |-> UpstreamMethod(event.event)]

\* lastFmHook(event.Metadata.title, event.Metadata.grandparentTitle,
\*            event.Metadata.parentTitle, <method>)
DispatchArgs(event) ==
    CallArgs(event.title, event.grandparentTitle, event.parentTitle,
             UpstreamMethod(event.event))

\* The handler from the body read to its response or to its lastFmHook call:
\*   resp  : the response returned here, NoResponse when it dispatches
\*   event : the parsed event, NoEvent when parsing did not get that far
Classify(v, body) ==
    LET raw == ReadRaw(v, body)
        event == body.payload.json
        out(resp, ev) == [resp |-> resp, event |-> ev]
    IN  IF raw = "throw" THEN out(InternalError(v), NoEvent)
        ELSE IF Falsy(raw, body) THEN out(MissingPayload(v), NoEvent)
        ELSE IF ~JsonParseOk(raw, body) THEN out(InternalError(v), NoEvent)
        ELSE IF event.isNull \/ ~event.hasMetadata
             THEN out(InternalError(v), NoEvent)   \* TypeError on .Metadata.type
        ELSE IF ~IsTrack(event) THEN out(NotATrack(v), event)
        ELSE IF UpstreamMethod(event.event) # "" THEN out(NoResponse, event)
        ELSE out(Ignored(v), event)

\* After `await lastFmHook(...)`: break, then the code after the switch.
AfterDispatch(v, event, hookResult) ==
    IF hookResult = "threw" THEN InternalError(v)
    ELSE IF v = "pages" THEN NextResponseJson(AckBody(event.event), 200)
    ELSE ReturnedUndefined    \* the return inside the switch is unreachable

(***************************************************************************)
(* State of one request and the steps of its handler                       *)
(***************************************************************************)
\* pc: "idle" -> "start" -> "reading" -> "fetching" <-> "sleeping"
\*            -> "returned" (lastFmHook resolved) -> "responded"
IdleReq ==
    [pc |-> "idle", input |-> NoInput, arrivedAt |-> 0, bodyRead |-> FALSE,
     event |-> NoEvent, calls |-> <<>>, tries |-> 0, sends |-> 0,
     payload |-> NoPayload, sentAt |-> 0, replies |-> <<>>,
     hookResult |-> "none", resp |-> NoResponse]

Requests == DOMAIN reqs

\* The inputs of one generateSecurePayload evaluation.
SigInputs ==
    [track : {"A", "B"}, artist : {"B", "Btrack"}, album : {"C", "Capi_key"},
     method : {"track.updateNowPlaying", "track.scrobble"},
     timestamp : {0, 10},
     api_key : {"KEY", "KEYartist"}, sk : {"SESS", "S"}, secret : {"SHH", "SH"}]
SigFields == {"track", "artist", "album", "method", "timestamp",
              "api_key", "sk", "secret"}
\* The inputs that differ from `a` in at most one value.
OneChange(a) ==
    {b \in SigInputs : \E f \in SigFields : \A g \in SigFields \ {f} : b[g] = a[g]}
NoSigInput == [track |-> "", artist |-> "", album |-> "", method |-> "",
               timestamp |-> 0, api_key |-> "", sk |-> "", secret |-> ""]
NoSigRun == [pc |-> "off", a |-> NoSigInput, b |-> NoSigInput,
             payA |-> NoPayload, payB |-> NoPayload]

Init ==
    /\ variant \in Variants
    /\ env \in Envs
    /\ now = 0
    /\ reqs = [r \in {1} |-> IdleReq]
    /\ sigrun = NoSigRun

\* A request, one of `inputs`, reaches the server.
ArriveFrom(r, inputs) ==
    /\ reqs[r].pc = "idle"
    /\ \E input \in inputs :
         reqs' = [reqs EXCEPT ![r].pc = "start", ![r].input = input,
                              ![r].arrivedAt = now]
    /\ UNCHANGED <<variant, env, now, sigrun>>

Arrive(r) == ArriveFrom(r, Inputs)

\* The handler runs up to `await request.formData()` / `await request.json()`.
Enter(r) ==
    /\ reqs[r].pc = "start"
    /\ LET resp == EnterResult(variant, reqs[r].input, env)
       IN  reqs' = IF resp = NoResponse
                   THEN [reqs EXCEPT ![r].pc = "reading", ![r].bodyRead = TRUE]
                   ELSE [reqs EXCEPT ![r].pc = "responded", ![r].resp = resp]
    /\ UNCHANGED <<variant, env, now, sigrun>>

\* Mutant: the payload is stamped with the time the event came in.
PayloadTime_Arrival(q, clock) == q.arrivedAt

\* const timestamp = Math.floor(Date.now() / 1000), read inside
\* generateSecurePayload, which every lastFmHook invocation calls anew.
PayloadTime(q, clock) == clock

\* lastFmHook(track, artist, album, method, tries): builds the payload and
\* issues the fetch.
Send(q, args, tries) ==
    [q EXCEPT !.pc = "fetching", !.tries = tries, !.sends = q.sends + 1,
              !.payload = generateSecurePayload(args.track, args.artist,
                                                args.album, args.method,
                                                PayloadTime(q, now')),
              !.sentAt = now']

\* Mutant: lastFmHook is called without `await`.
DispatchAwaited_Not == FALSE

\* `await lastFmHook(...)`: the handler goes on only when the call has resolved.
DispatchAwaited == TRUE

\* The response the handler has produced once it has called lastFmHook:
\* none while it awaits the call.
WhileDispatching(v, event) ==
    IF DispatchAwaited THEN NoResponse ELSE AfterDispatch(v, event, "1")

\* The body has been read: parse, classify, and respond or dispatch.
ReadBody(r) ==
    /\ reqs[r].pc = "reading"
    /\ now' = now
    /\ LET c == Classify(variant, reqs[r].input.body)
           q == [reqs[r] EXCEPT !.event = c.event]
       IN  reqs' = IF c.resp = NoResponse
                   THEN [reqs EXCEPT ![r] =
                           Send([q EXCEPT !.calls = Append(q.calls, DispatchArgs(c.event)),
                                          !.resp = WhileDispatching(variant, c.event)],
                                DispatchArgs(c.event), FirstTry)]
                   ELSE [reqs EXCEPT ![r] = [q EXCEPT !.pc = "responded", !.resp = c.resp]]
    /\ UNCHANGED <<variant, env, sigrun>>

\* The fetch settles, with one of `outcomes`, and lastFmHook runs on to its
\* sleep or to its return.
FetchSettleFrom(r, outcomes) ==
    /\ reqs[r].pc = "fetching"
    /\ \E outcome \in outcomes :
         LET result == lastFmHookStep(outcome, reqs[r].tries)
             q == [reqs[r] EXCEPT !.replies = Append(reqs[r].replies, outcome)]
         IN  reqs' = [reqs EXCEPT ![r] =
                 IF result = "retry" THEN [q EXCEPT !.pc = "sleeping"]
                 ELSE [q EXCEPT !.pc = "returned",
                                !.hookResult = IF result = "normal" THEN "1" ELSE "threw"]]
    /\ UNCHANGED <<variant, env, now, sigrun>>

FetchSettle(r) == FetchSettleFrom(r, Outcomes)

\* Mutant: the attempt number is one counter for all requests.
NextTries_Shared(r) ==
    1 + CHOOSE t \in {reqs[x].tries : x \in Requests} :
            \A x \in Requests : reqs[x].tries <= t

\* tries + 1: the attempt number is a parameter of the request's own call
NextTries(r) == reqs[r].tries + 1

\* sleep(2000) is over: return lastFmHook(track, artist, album, method, tries + 1)
SleepElapse(r) ==
    /\ reqs[r].pc = "sleeping"
    /\ now' = now + SleepSeconds
    /\ reqs' = [reqs EXCEPT ![r] =
                  Send(reqs[r], reqs[r].calls[Len(reqs[r].calls)], NextTries(r))]
    /\ UNCHANGED <<variant, env, sigrun>>

\* `await lastFmHook(...)` is over: the handler finishes.
Resume(r) ==
    /\ reqs[r].pc = "returned"
    /\ reqs' = [reqs EXCEPT ![r].pc = "responded",
                  ![r].resp = IF reqs[r].resp = NoResponse
                              THEN AfterDispatch(variant, reqs[r].event, reqs[r].hookResult)
                              ELSE reqs[r].resp]
    /\ UNCHANGED <<variant, env, now, sigrun>>

\* Time passes.
Tick ==
    /\ now < MaxClock
    /\ now' = now + 1
    /\ UNCHANGED <<variant, env, reqs, sigrun>>

Arrivals == \E r \in Requests : Arrive(r)
Enters == \E r \in Requests : Enter(r)
ReadBodies == \E r \in Requests : ReadBody(r)
FetchSettles == \E r \in Requests : FetchSettle(r)
SleepElapses == \E r \in Requests : SleepElapse(r)
Resumes == \E r \in Requests : Resume(r)

Next ==
    \/ Arrivals
    \/ Enters
    \/ ReadBodies
    \/ FetchSettles
    \/ SleepElapses
    \/ Resumes
    \/ Tick

Spec == Init /\ [][Next]_vars

(***************************************************************************)
(* Two requests in flight at once: the same media.resume event sent twice, *)
(* each in either body encoding, against an upstream that answers with a   *)
(* transient error, a success or a network failure.                        *)
(***************************************************************************)
ResumeEvent ==
    [isNull |-> FALSE, hasMetadata |-> TRUE, event |-> "media.resume",
     type |-> "track", title |-> "A", grandparentTitle |-> "B", parentTitle |-> "C"]
ConcInputs ==
    {i \in Inputs :
        /\ i.method = "POST"
        /\ i.query = [name |-> "apikey", value |-> "s3cret"]
        /\ i.body.enc \in {"form", "jsonString"}
        /\ i.body.payload = [kind |-> "text", valid |-> TRUE, json |-> ResumeEvent]}
ConcOutcomes ==
    {NetworkFailure,
     [net |-> TRUE, ok |-> TRUE, body |-> "object", error |-> 0, errorIsNumber |-> TRUE],
     [net |-> TRUE, ok |-> FALSE, body |-> "object", error |-> 11, errorIsNumber |-> TRUE]}

InitConc ==
    /\ variant \in Variants
    /\ env = [set |-> TRUE, value |-> "s3cret"]
    /\ now = 0
    /\ reqs = [r \in {1, 2} |-> IdleReq]
    /\ sigrun = NoSigRun

ArrivalsConc == \E r \in Requests : ArriveFrom(r, ConcInputs)
FetchSettlesConc == \E r \in Requests : FetchSettleFrom(r, ConcOutcomes)

NextConc ==
    \/ ArrivalsConc
    \/ Enters
    \/ ReadBodies
    \/ FetchSettlesConc
    \/ SleepElapses
    \/ Resumes
    \/ Tick

SpecConc == InitConc /\ [][NextConc]_vars

(***************************************************************************)
(* The scheduling of one request: the runtime runs the handler once the    *)
(* request is in, every await of a read, a fetch or a sleep is resumed     *)
(* once it can be. Arrivals and the passing of time are not forced.        *)
(***************************************************************************)
SpecLive ==
    /\ Spec
    /\ WF_vars(Enters) /\ WF_vars(ReadBodies) /\ WF_vars(FetchSettles)
    /\ WF_vars(SleepElapses) /\ WF_vars(Resumes)

(***************************************************************************)
(* generateSecurePayload on its own: two evaluations, on inputs that       *)
(* differ in at most one value.                                            *)
(***************************************************************************)
InitSig ==
    /\ variant = "pages"
    /\ env = [set |-> TRUE, value |-> "s3cret"]
    /\ now = 0
    /\ reqs = [r \in {1} |-> IdleReq]
    /\ \E a \in SigInputs : \E b \in OneChange(a) :
         sigrun = [NoSigRun EXCEPT !.pc = "new", !.a = a, !.b = b]

\* generateSecurePayload(track, artist, album, method) at time i.timestamp,
\* with the environment holding i.api_key, i.sk and i.secret.
Evaluate(i) ==
    generateSecurePayloadEnv(i.track, i.artist, i.album, i.method, i.timestamp,
                             [api_key |-> i.api_key, sk |-> i.sk, secret |-> i.secret])

SignFirst ==
    /\ sigrun.pc = "new"
    /\ sigrun' = [sigrun EXCEPT !.pc = "one", !.payA = Evaluate(sigrun.a)]
    /\ UNCHANGED <<variant, env, now, reqs>>

SignSecond ==
    /\ sigrun.pc = "one"
    /\ sigrun' = [sigrun EXCEPT !.pc = "both", !.payB = Evaluate(sigrun.b)]
    /\ UNCHANGED <<variant, env, now, reqs>>

NextSig ==
    \/ SignFirst
    \/ SignSecond

SpecSig == InitSig /\ [][NextSig]_vars

(***************************************************************************)
(* Vocabulary of the properties, stated on inputs and observations         *)
(***************************************************************************)
Finished(q) == q.pc \in {"returned", "responded"}
Dispatched(q) == q.calls # <<>>
Responded(q) == q.pc = "responded"

\* A non-success reply whose JSON error code is 11 or 16.
TransientReply(o) ==
    o.net /\ ~o.ok /\ o.body = "object" /\ o.errorIsNumber /\ o.error \in {11, 16}
\* A non-success reply whose JSON carries another error code, or none.
PermanentReply(o) ==
    o.net /\ ~o.ok /\ o.body = "object" /\ o.errorIsNumber /\ o.error \notin {11, 16}
AllTransient(q) ==
    q.replies # <<>> /\ \A i \in 1..Len(q.replies) : TransientReply(q.replies[i])

\* The apikey parameter is absent or differs from the configured secret.
BadCredential(q) ==
    \/ q.input.query.name # "apikey"
    \/ ~env.set
    \/ q.input.query.value # env.value

\* The receiver parsed the payload into an event with Metadata.
Parsed(q) == q.event # NoEvent
\* The event the request carries.
Carried(q) == q.input.body.payload.json
DispatchKinds == {"media.play", "media.resume", "media.scrobble"}

(***************************************************************************)
(* C1: when every upstream reply of a dispatch is a non-success status     *)
(* with error code 11 or 16, the dispatch ends after exactly 6 sends       *)
(* (1 initial + 5 retries), and never holds more than 6.                   *)
(***************************************************************************)
C1_SixSendsOnTransient ==
    \A r \in Requests :
        AllTransient(reqs[r]) =>
            /\ reqs[r].sends <= 6
            /\ Finished(reqs[r]) => reqs[r].sends = 6 /\ Len(reqs[r].replies) = 6

C1_Witness ==
    \E r \in Requests :
        AllTransient(reqs[r]) /\ Finished(reqs[r]) /\ reqs[r].sends = 6

(***************************************************************************)
(* C2 as stated: no dispatch performs more than 5 sends.                   *)
(***************************************************************************)
C2_AtMostFiveSends == \A r \in Requests : reqs[r].sends <= 5

(***************************************************************************)
(* C2 as amended: no dispatch performs more than 6 sends (1 initial send   *)
(* and up to 5 retries), and a send beyond the first only follows a        *)
(* transient reply.                                                        *)
(***************************************************************************)
C2_AtMostSixSends ==
    \A r \in Requests :
        /\ reqs[r].sends <= 6
        /\ reqs[r].sends <= Len(reqs[r].replies) + 1
        /\ \A i \in 1..(reqs[r].sends - 1) : TransientReply(reqs[r].replies[i])

C2_Witness == \E r \in Requests : reqs[r].sends = 6 /\ reqs[r].pc = "fetching"

(***************************************************************************)
(* C3: a non-success reply with a non-transient error code ends the        *)
(* dispatch at that send: no delay and no retry follow, and when it        *)
(* answers the first send the dispatch has exactly 1 send.                 *)
(***************************************************************************)
C3_PermanentErrorOneSend ==
    \A r \in Requests : \A i \in 1..Len(reqs[r].replies) :
        PermanentReply(reqs[r].replies[i]) =>
            /\ Finished(reqs[r])
            /\ i = Len(reqs[r].replies)
            /\ reqs[r].sends = i
            /\ (PermanentReply(reqs[r].replies[1]) => reqs[r].sends = 1)

C3_Witness ==
    \E r \in Requests :
        /\ Responded(reqs[r]) /\ reqs[r].sends = 1
        /\ Len(reqs[r].replies) = 1 /\ PermanentReply(reqs[r].replies[1])
        /\ reqs[r].replies[1].error = 6

(***************************************************************************)
(* C4: once a dispatch has ended, whatever ended it, lastFmHook has        *)
(* returned its completion value 1; the receiver never sees an exception   *)
(* from it, so it never answers a dispatched request from its catch block. *)
(***************************************************************************)
C4_DispatchReturnsNormally ==
    \A r \in Requests :
        /\ (Finished(reqs[r]) /\ Dispatched(reqs[r])) => reqs[r].hookResult = "1"
        /\ (Responded(reqs[r]) /\ Dispatched(reqs[r])) =>
               /\ reqs[r].resp.kind # "threw"
               /\ reqs[r].resp # InternalError(variant)

C4_Witness ==
    \E r \in Requests :
        /\ Responded(reqs[r]) /\ reqs[r].hookResult = "1"
        /\ reqs[r].replies # <<>>
        /\ ~reqs[r].replies[Len(reqs[r].replies)].net

(***************************************************************************)
(* C5 as stated: an authenticated POST whose track event is of kind        *)
(* media.play, media.resume or media.scrobble is answered 200 with         *)
(* {received: true, event: <event name>}, whatever the upstream did.       *)
(***************************************************************************)
C5_AckWhateverUpstream ==
    \A r \in Requests :
        ( /\ Responded(reqs[r]) /\ Parsed(reqs[r])
          /\ reqs[r].input.method = "POST" /\ ~BadCredential(reqs[r])
          /\ Carried(reqs[r]).type = "track"
          /\ Carried(reqs[r]).event \in DispatchKinds )
        => /\ reqs[r].resp.kind = "response"
           /\ reqs[r].resp.status = 200
           /\ reqs[r].resp.body.received
           /\ reqs[r].resp.body.event = Carried(reqs[r]).event

(***************************************************************************)
(* C6 as stated: a POST whose apikey parameter is absent or differs from   *)
(* the configured secret is answered with status 401, and causes no        *)
(* dispatcher call and no upstream send.                                   *)
(***************************************************************************)
C6_BadCredentialIs401 ==
    \A r \in Requests :
        (reqs[r].input.method = "POST" /\ BadCredential(reqs[r])) =>
            /\ ~Dispatched(reqs[r]) /\ reqs[r].sends = 0
            /\ reqs[r].pc \in {"start", "responded"}
            /\ Responded(reqs[r]) =>
                   reqs[r].resp.kind = "response" /\ reqs[r].resp.status = 401

(***************************************************************************)
(* C7: for a track event of kind media.play, media.resume or               *)
(* media.scrobble the receiver calls the dispatcher exactly once, with     *)
(* title, grandparentTitle and parentTitle as the payload carries them and *)
(* with track.updateNowPlaying (play, resume) or track.scrobble            *)
(* (scrobble); every send of the dispatch carries these values.            *)
(***************************************************************************)
C7_DispatchArguments ==
    \A r \in Requests :
        (Parsed(reqs[r]) /\ Carried(reqs[r]).type = "track"
                         /\ Carried(reqs[r]).event \in DispatchKinds) =>
            LET e == Carried(reqs[r])
                m == IF e.event = "media.scrobble" THEN "track.scrobble"
                     ELSE "track.updateNowPlaying"
            IN  /\ reqs[r].calls =
                     << [track |-> e.title, artist |-> e.grandparentTitle,
                         album |-> e.parentTitle, method |-> m] >>
                /\ reqs[r].payload.track = e.title
                /\ reqs[r].payload.artist = e.grandparentTitle
                /\ reqs[r].payload.album = e.parentTitle
                /\ reqs[r].payload.method = m

C7_Witness ==
    \E r \in Requests :
        /\ Responded(reqs[r]) /\ Len(reqs[r].calls) = 1 /\ reqs[r].sends = 2
        /\ Carried(reqs[r]).event = "media.resume"
        /\ reqs[r].calls[1] = [track |-> "C", artist |-> "A", album |-> "B",
                               method |-> "track.updateNowPlaying"]

(***************************************************************************)
(* C8 as stated: an event whose Metadata.type is not "track" causes no     *)
(* dispatch and is answered with a status that is not an error status.     *)
(***************************************************************************)
C8_NonTrackNotAnError ==
    \A r \in Requests :
        (Parsed(reqs[r]) /\ Carried(reqs[r]).type # "track") =>
            /\ ~Dispatched(reqs[r]) /\ reqs[r].sends = 0
            /\ Responded(reqs[r])
            /\ reqs[r].resp.kind = "response" /\ reqs[r].resp.status < 400

(***************************************************************************)
(* C8 as amended: an event whose Metadata.type is not "track" causes no    *)
(* dispatch and is answered at once with the deployment's skip reply:      *)
(* status 400 "Not a track. Skipping" from the pages handler, a JSON body  *)
(* {status: 204} from the app route; never the handler's internal error.   *)
(***************************************************************************)
C8_NonTrackSkipped ==
    \A r \in Requests :
        (Parsed(reqs[r]) /\ Carried(reqs[r]).type # "track") =>
            /\ ~Dispatched(reqs[r]) /\ reqs[r].sends = 0
            /\ Responded(reqs[r])
            /\ reqs[r].resp.kind = "response"
            /\ reqs[r].resp # InternalError(variant)
            /\ variant = "pages" =>
                   /\ reqs[r].resp.status = 400
                   /\ reqs[r].resp.body = StringBody("Not a track. Skipping")
            /\ variant = "app" =>
                   /\ reqs[r].resp.status = 200
                   /\ reqs[r].resp.body = ObjectBody("", 204)

C8_Witness ==
    \E r \in Requests :
        /\ Responded(reqs[r]) /\ Parsed(reqs[r])
        /\ Carried(reqs[r]).type = "movie" /\ Carried(reqs[r]).event = "media.scrobble"
        /\ variant = "pages" /\ reqs[r].resp.status = 400

(***************************************************************************)
(* C9 as stated: a request whose method is not POST is answered 405 and    *)
(* causes no dispatch.                                                     *)
(***************************************************************************)
C9_NonPostIs405 ==
    \A r \in Requests :
        (reqs[r].input.method \notin {"", "POST"}) =>
            /\ ~Dispatched(reqs[r]) /\ reqs[r].sends = 0
            /\ Responded(reqs[r]) =>
                   reqs[r].resp.kind = "response" /\ reqs[r].resp.status = 405

(***************************************************************************)
(* C10 as stated: a POST to /api/webhook?apiKey=<API_KEY>, the value being *)
(* the configured non-empty secret, passes the credential check and is     *)
(* not answered as unauthorized.                                           *)
(***************************************************************************)
C10_ReadmeUrlAuthenticates ==
    \A r \in Requests :
        ( /\ Responded(reqs[r]) /\ reqs[r].input.method = "POST"
          /\ env.set /\ env.value # ""
          /\ reqs[r].input.query = [name |-> "apiKey", value |-> env.value] )
        => /\ reqs[r].bodyRead
           /\ reqs[r].resp.status # 401
           /\ reqs[r].resp.body.text # "Unauthorized"

(***************************************************************************)
(* C11 as stated: when reading the payload throws, or the payload is not   *)
(* JSON, or the JSON is null or lacks Metadata, the handler's catch block  *)
(* answers with status 500; the handler does not throw and nothing is      *)
(* dispatched.                                                             *)
(***************************************************************************)
\* The body cannot be read the way the deployed route reads it.
Unreadable(q) ==
    \/ variant = "pages" /\ q.input.body.enc # "form"
    \/ variant = "app" /\ q.input.body.enc \notin {"jsonString", "jsonValue"}
\* The route gets a non-empty payload text that is no Inbound Event.
BadPayloadText(q) ==
    /\ \/ variant = "pages" /\ q.input.body.enc = "form"
       \/ variant = "app" /\ q.input.body.enc = "jsonString"
    /\ q.input.body.payload.kind = "text"
    /\ \/ ~q.input.body.payload.valid
       \/ q.input.body.payload.json.isNull
       \/ ~q.input.body.payload.json.hasMetadata

C11_ParseFailureIs500 ==
    \A r \in Requests :
        ( /\ reqs[r].bodyRead /\ reqs[r].pc # "reading"
          /\ Unreadable(reqs[r]) \/ BadPayloadText(reqs[r]) )
        => /\ Responded(reqs[r])
           /\ ~Dispatched(reqs[r]) /\ reqs[r].sends = 0
           /\ reqs[r].resp.kind = "response"
           /\ reqs[r].resp.status = 500

(***************************************************************************)
(* C12 as stated: a track event of kind media.pause or media.stop, or of   *)
(* an unrecognized kind, causes no dispatch and is answered 204 with no    *)
(* body.                                                                   *)
(***************************************************************************)
C12_IgnoredKindsAre204 ==
    \A r \in Requests :
        ( /\ Parsed(reqs[r]) /\ Carried(reqs[r]).type = "track"
          /\ Carried(reqs[r]).event \notin DispatchKinds )
        => /\ Responded(reqs[r])
           /\ ~Dispatched(reqs[r]) /\ reqs[r].sends = 0
           /\ reqs[r].resp.kind = "response"
           /\ reqs[r].resp.status = 204
           /\ reqs[r].resp.body = NullBody

(***************************************************************************)
(* C13: a reply whose body is not JSON (whatever its status) and a send    *)
(* that fails at the network level end the dispatch at that send: no       *)
(* delay and no retry follow, on the first attempt (exactly 1 send) as on  *)
(* a retry after transient errors.                                         *)
(***************************************************************************)
\* The send failed, or its reply body is no JSON.
UnusableReply(o) == ~o.net \/ o.body = "nonjson"

C13_NoRetryOnUnusableReply ==
    \A r \in Requests : \A i \in 1..Len(reqs[r].replies) :
        UnusableReply(reqs[r].replies[i]) =>
            /\ Finished(reqs[r])
            /\ reqs[r].hookResult = "1"
            /\ i = Len(reqs[r].replies)
            /\ reqs[r].sends = i
            /\ (UnusableReply(reqs[r].replies[1]) => reqs[r].sends = 1)

C13_Witness ==
    \E r \in Requests :
        /\ Responded(reqs[r]) /\ reqs[r].sends = 3 /\ Len(reqs[r].replies) = 3
        /\ TransientReply(reqs[r].replies[1]) /\ TransientReply(reqs[r].replies[2])
        /\ reqs[r].replies[3].net /\ reqs[r].replies[3].ok
        /\ reqs[r].replies[3].body = "nonjson"

(***************************************************************************)
(* C14: the payload of every send, retries included, is built for that     *)
(* send: its timestamp is the time of that attempt, and its api_sig is     *)
(* the digest of the values sent with it (names in lexicographic order,    *)
(* each followed by its value, then the shared secret).                    *)
(***************************************************************************)
SignedString(p) ==
    "album" \o p.album \o "api_key" \o p.api_key \o "artist" \o p.artist
    \o "method" \o p.method \o "sk" \o p.sk
    \o "timestamp" \o p.timestamp \o "track" \o p.track

C14_PayloadFreshPerAttempt ==
    \A r \in Requests :
        reqs[r].sends > 0 =>
            /\ reqs[r].payload.timestamp = ToString(reqs[r].sentAt)
            /\ reqs[r].payload.api_sig =
                   md5(SignedString(reqs[r].payload) \o LAST_FM_SECRET)
            /\ reqs[r].payload.format = "json"

C14_Witness ==
    \E r \in Requests :
        /\ reqs[r].sends = 2 /\ reqs[r].pc = "fetching"
        /\ reqs[r].arrivedAt = 0 /\ reqs[r].sentAt = 3
        /\ reqs[r].payload.timestamp = "3"

(***************************************************************************)
(* C15: api_sig is the digest of the string made of each parameter name    *)
(* immediately followed by its value, names in lexicographic order, then   *)
(* the shared secret (api_sig and format are not part of it); equal        *)
(* inputs give equal signatures, and inputs that differ in one value give  *)
(* different signatures.                                                   *)
(***************************************************************************)
C15_SignatureOfSortedParams ==
    sigrun.pc = "both" =>
        LET a == sigrun.a
            b == sigrun.b
        IN  /\ sigrun.payA.api_sig =
                 md5("album" \o a.album \o "api_key" \o a.api_key
                     \o "artist" \o a.artist \o "method" \o a.method
                     \o "sk" \o a.sk \o "timestamp" \o ToString(a.timestamp)
                     \o "track" \o a.track \o a.secret)
            /\ (a = b) => (sigrun.payA.api_sig = sigrun.payB.api_sig)
            /\ (a # b) => (sigrun.payA.api_sig # sigrun.payB.api_sig)

C15_Witness ==
    /\ sigrun.pc = "both"
    /\ sigrun.a.album = "C" /\ sigrun.b.album = "Capi_key"
    /\ sigrun.payA.api_sig # sigrun.payB.api_sig

(***************************************************************************)
(* C16: the handler produces its result for a now-playing or scrobble      *)
(* event only when the whole dispatch chain is over: at that moment no     *)
(* send and no retry delay of the request is pending, and no send of the   *)
(* request follows it.                                                     *)
(***************************************************************************)
Answered(q) == q.resp # NoResponse

C16_ResponseAfterDispatch ==
    [][ \A r \in Requests :
          /\ (Answered(reqs'[r]) /\ Dispatched(reqs'[r])) =>
                 /\ reqs'[r].pc = "responded"
                 /\ reqs'[r].hookResult # "none"
                 /\ reqs'[r].sends = Len(reqs'[r].replies)
          /\ Answered(reqs[r]) => reqs'[r].sends = reqs[r].sends ]_vars

C16_Witness ==
    \E r \in Requests :
        /\ Answered(reqs[r]) /\ Dispatched(reqs[r])
        /\ reqs[r].sends = 6 /\ Len(reqs[r].replies) = 6
        /\ reqs[r].sentAt >= reqs[r].arrivedAt + 10

(***************************************************************************)
(* C17: requests in flight together are independent. Each accepted         *)
(* request makes its own sends, also when another request carries the      *)
(* same event (no deduplication); its attempt counter counts its own       *)
(* sends only, so its sends are decided by its own replies and it has its  *)
(* full retry budget whatever the other requests use.                      *)
(***************************************************************************)
C17_RequestsIndependent ==
    \A r \in Requests :
        /\ (Parsed(reqs[r]) /\ Carried(reqs[r]).event = "media.resume") =>
               Dispatched(reqs[r]) /\ reqs[r].sends >= 1
        /\ reqs[r].tries = reqs[r].sends
        /\ reqs[r].sends =
               Len(reqs[r].replies) + (IF reqs[r].pc = "fetching" THEN 1 ELSE 0)
        /\ \A i \in 1..Len(reqs[r].replies) :
               ~TransientReply(reqs[r].replies[i]) => i = Len(reqs[r].replies)
        /\ (AllTransient(reqs[r]) /\ Finished(reqs[r])) => reqs[r].sends = 6

C17_Witness ==
    /\ Carried(reqs[1]) = Carried(reqs[2])
    /\ reqs[1].input = reqs[2].input
    /\ reqs[1].pc = "sleeping" /\ reqs[1].sends = 5
    /\ reqs[2].pc = "fetching" /\ reqs[2].sends = 2
    /\ reqs[2].arrivedAt > reqs[1].arrivedAt

(***************************************************************************)
(* C18 as stated: validation is ordered method, credential, payload. A     *)
(* non-POST request gets the method rejection (405) whatever its           *)
(* credential; a POST with a wrong or missing credential gets 401 whatever *)
(* its payload, never 400, 204, 500 or 200; the payload is read only for a *)
(* POST that passed the credential check.                                  *)
(***************************************************************************)
C18_MethodCredentialPayloadOrder ==
    \A r \in Requests :
        /\ reqs[r].bodyRead =>
               /\ reqs[r].input.method = "POST"
               /\ ~Unauthorized(reqs[r].input.query, env)
        /\ (Responded(reqs[r]) /\ reqs[r].input.method # "POST") =>
               /\ ~reqs[r].bodyRead
               /\ reqs[r].resp.kind = "response" /\ reqs[r].resp.status = 405
        /\ ( /\ Responded(reqs[r]) /\ reqs[r].input.method = "POST"
             /\ Unauthorized(reqs[r].input.query, env) ) =>
               /\ ~reqs[r].bodyRead
               /\ reqs[r].resp.kind = "response"
               /\ reqs[r].resp.status \notin {400, 204, 500, 200}
               /\ reqs[r].resp.status = 401

\* The order alone, without the status codes: what is read and dispatched.
C18_OrderOfChecks ==
    \A r \in Requests :
        /\ reqs[r].bodyRead =>
               /\ reqs[r].input.method = "POST"
               /\ ~Unauthorized(reqs[r].input.query, env)
        /\ (Responded(reqs[r]) /\ ~reqs[r].bodyRead) =>
               reqs[r].resp.body.text \in {"", "Invalid Method", "Unauthorized"}
        /\ (Responded(reqs[r]) /\ reqs[r].input.method = "POST"
              /\ Unauthorized(reqs[r].input.query, env)) =>
               reqs[r].resp.body.text = "Unauthorized"

(***************************************************************************)
(* C19: the credential check fails closed. When env.API_KEY is unset or    *)
(* is the empty string no request passes the check, whatever apikey value  *)
(* it supplies (none and the empty one included): its payload is not read, *)
(* nothing is dispatched or sent, and a request that reaches the check is  *)
(* answered as Unauthorized.                                               *)
(***************************************************************************)
C19_FailsClosed ==
    (~env.set \/ env.value = "") =>
        \A r \in Requests :
            /\ ~reqs[r].bodyRead
            /\ ~Dispatched(reqs[r]) /\ reqs[r].sends = 0
            /\ reqs[r].pc \in {"idle", "start", "responded"}
            /\ (Responded(reqs[r]) /\ reqs[r].input.method = "POST") =>
                   /\ reqs[r].resp.kind = "response"
                   /\ reqs[r].resp.body.text = "Unauthorized"

C19_Witness ==
    /\ env = [set |-> TRUE, value |-> ""]
    /\ \E r \in Requests :
          /\ Responded(reqs[r]) /\ reqs[r].input.method = "POST"
          /\ reqs[r].input.query = [name |-> "apikey", value |-> ""]
          /\ reqs[r].resp.body.text = "Unauthorized"

(***************************************************************************)
(* C20 as stated: every request gets exactly one response. With every      *)
(* send completing and every delay elapsing the handler terminates on      *)
(* every path, and what it returns is a response object.                   *)
(***************************************************************************)
C20_EveryPathReturnsResponse ==
    \A r \in Requests :
        Responded(reqs[r]) => reqs[r].resp.kind = "response"

\* The termination half of C20: a request that is in gets to its end.
C20_Terminates == (reqs[1].pc = "start") ~> (reqs[1].pc = "responded")

====
